---------------------------- MODULE Spec2Model ----------------------------
(***************************************************************************)
(* Footer reconciliation engine of bear-js-cli: the identity marker,       *)
(* the footer builders, the footer stripper, and the create / update /     *)
(* batch-update workflows that use them.                                   *)
(*                                                                         *)
(* A note body is a sequence of tokens.  Every token stands for one fixed  *)
(* piece of text, chosen so that every literal of the regular expressions  *)
(* of the source begins and ends on a token border:                        *)
(*   NL  "\n"                 SP  " "              X   "x" (content)       *)
(*   D   "---"                Cr  "*Created: "     Up  "*Last Updated: "   *)
(*   Ts1, Ts2  "<formatDate(now)>*" at clock value 1, 2                    *)
(*   Tl  "<toLocaleDateString(now)>*" (legacy format)                      *)
(*   MO  "<!-- Note ID:" followed by " "           E   "-->"               *)
(*   I1 "A1", I2 "B2", I3 "C3"  tokens of the class [A-F0-9-]              *)
(* so the marker "<!-- Note ID: A1 -->" is << MO, I1, SP, E >>.            *)
(***************************************************************************)
EXTENDS Naturals, Integers, Sequences, FiniteSets, TLC

NL == "NL"
SP == "SP"
X == "X"
D == "D"
Cr == "Cr"
Up == "Up"
Ts1 == "Ts1"
Ts2 == "Ts2"
Tl == "Tl"
MO == "MO"
E == "E"
I1 == "I1"
I2 == "I2"
I3 == "I3"

\* null / no match of String.match
None == << >>

\* \s of the regular expressions
IsWs(t) == t \in {NL, SP}

\* [A-F0-9-]: the identifier tokens and the hyphens of "---"
IsIdTok(t) == t \in {I1, I2, I3, D}

\* every token of the identifier is in [A-F0-9-]
IsValidId(id) == id # None /\ \A i \in 1..Len(id) : IsIdTok(id[i])

\* formatDate(now) followed by the closing "*" of a timestamp line
formatDate(now) == IF now = 1 THEN Ts1 ELSE Ts2

(***************************************************************************)
(* Scanning helpers: the greedy runs of the regular expressions.           *)
(***************************************************************************)
RECURSIVE IdRunEnd(_, _)
\* first index >= j that is not in [A-F0-9-]  ([A-F0-9-]+ is greedy)
IdRunEnd(s, j) ==
  IF j <= Len(s) /\ IsIdTok(s[j]) THEN IdRunEnd(s, j + 1) ELSE j

RECURSIVE NlRunEnd(_, _)
\* first index >= j that is not "\n"  (\n*)
NlRunEnd(s, j) ==
  IF j <= Len(s) /\ s[j] = NL THEN NlRunEnd(s, j + 1) ELSE j

RECURSIVE WsRunEnd(_, _)
\* first index >= j that is not white space  (\s*)
WsRunEnd(s, j) ==
  IF j <= Len(s) /\ IsWs(s[j]) THEN WsRunEnd(s, j + 1) ELSE j

RECURSIVE LineEnd(_, _)
\* first index >= j that holds "\n", or Len(s)+1  ([^\n]*)
LineEnd(s, j) ==
  IF j <= Len(s) /\ s[j] # NL THEN LineEnd(s, j + 1) ELSE j

\* the pattern without its closing delimiter: /<!-- Note ID: [A-F0-9-]+/
MarkerEndAtUnclosed(s, i) ==
  IF i <= Len(s) /\ s[i] = MO
  THEN LET k == IdRunEnd(s, i + 1)
       IN  IF k > i + 1 THEN k + 2 ELSE 0
  ELSE 0

\* /<!-- Note ID: [A-F0-9-]+ -->/ matched at index i: the index just after
\* the match, or 0 when there is no match at i
MarkerEndAt(s, i) ==
  IF i <= Len(s) /\ s[i] = MO
  THEN LET k == IdRunEnd(s, i + 1)
       IN  IF k > i + 1 /\ k + 1 <= Len(s) /\ s[k] = SP /\ s[k + 1] = E
           THEN k + 2
           ELSE 0
  ELSE 0

\* the indexes at which a marker begins
MarkerStarts(s) == {i \in 1..Len(s) : MarkerEndAt(s, i) # 0}

Min(S) == CHOOSE m \in S : \A o \in S : m <= o

\* detectNoteId: the captured group of the first match, or null
detectNoteId(content) ==
  IF MarkerStarts(content) = {}
  THEN None
  ELSE LET i == Min(MarkerStarts(content))
       IN  SubSeq(content, i + 1, MarkerEndAt(content, i) - 3)

(***************************************************************************)
(* stripExistingFooter: four replace calls in a row.                       *)
(***************************************************************************)
\* footerPattern matched at index i (the match runs to the end of the text)
FooterAt(s, i) ==
  /\ i + 4 <= Len(s)
  /\ s[i] = NL /\ s[i + 1] = NL /\ s[i + 2] = D /\ s[i + 3] = NL
  /\ s[i + 4] = Cr
  /\ LET j == LineEnd(s, i + 5)      \* the "\n" that ends the Created line
         m == IF j + 1 <= Len(s) /\ s[j + 1] = Up
              THEN LineEnd(s, j + 2) + 1
              ELSE j + 1
         e == MarkerEndAt(s, m)
     IN  /\ j <= Len(s)
         /\ m <= Len(s)
         /\ s[m - 1] = NL
         /\ e # 0
         /\ WsRunEnd(s, e) = Len(s) + 1

\* the result of replace thrown away: content.replace(footerPattern, "")
\* without the assignment to cleaned
StripFooterBlockResultDropped(s) == s

\* cleaned.replace(footerPattern, "")
StripFooterBlock(s) ==
  LET starts == {i \in 1..Len(s) : FooterAt(s, i)}
  IN  IF starts = {} THEN s ELSE SubSeq(s, 1, Min(starts) - 1)

RECURSIVE RemoveMarkersFrom(_, _, _)
\* the scan of the global replace, from index p, acc being the text kept
RemoveMarkersFrom(s, p, acc) ==
  IF p > Len(s)
  THEN acc
  ELSE LET e == MarkerEndAt(s, NlRunEnd(s, p))
       IN  IF e # 0
           THEN RemoveMarkersFrom(s, WsRunEnd(s, e), acc)
           ELSE RemoveMarkersFrom(s, p + 1, Append(acc, s[p]))

\* cleaned.replace(/\n*<!-- Note ID: [A-F0-9-]+ -->\s*/g, "")
RemoveMarkers(s) == RemoveMarkersFrom(s, 1, << >>)

\* /\n\n---\s*$/ matched at index i
SeparatorAt(s, i) ==
  /\ i + 2 <= Len(s)
  /\ s[i] = NL /\ s[i + 1] = NL /\ s[i + 2] = D
  /\ WsRunEnd(s, i + 3) = Len(s) + 1

\* the pattern without its end anchor: cleaned.replace(/\n\n---\s*/, "")
StripFirstSeparator(s) ==
  LET starts == {i \in 1..Len(s) :
                   i + 2 <= Len(s) /\ s[i] = NL /\ s[i + 1] = NL /\ s[i + 2] = D}
  IN  IF starts = {}
      THEN s
      ELSE SubSeq(s, 1, Min(starts) - 1)
             \o SubSeq(s, WsRunEnd(s, Min(starts) + 3), Len(s))

\* cleaned.replace(/\n\n---\s*$/g, "")
StripTrailingSeparator(s) ==
  LET starts == {i \in 1..Len(s) : SeparatorAt(s, i)}
  IN  IF starts = {} THEN s ELSE SubSeq(s, 1, Min(starts) - 1)

\* cleaned.replace(/\n\n+$/g, "\n")
CollapseTrailingNewlines(s) ==
  LET starts == {i \in 1..Len(s) : i + 1 <= Len(s) /\ NlRunEnd(s, i) = Len(s) + 1}
  IN  IF starts = {} THEN s ELSE Append(SubSeq(s, 1, Min(starts) - 1), NL)

stripExistingFooter(content) ==
  CollapseTrailingNewlines(
    StripTrailingSeparator(
      RemoveMarkers(
        StripFooterBlock(content))))

(***************************************************************************)
(* Footer builders.                                                        *)
(***************************************************************************)
\* `<!-- Note ID: ${noteId} -->`
idLine(noteId) == << MO >> \o noteId \o << SP, E >>

buildNewNoteFooter(noteId, includeCreated, includeId, now) ==
  << NL, NL, D >>
    \o (IF includeCreated THEN << NL, Cr, formatDate(now) >> ELSE << >>)
    \o (IF includeId THEN << NL >> \o idLine(noteId) ELSE << >>)

buildUpdateFooter(noteId, includeCreated, includeId, now) ==
  << NL, NL, D >>
    \o (IF includeCreated
        THEN << NL, Cr, formatDate(now), NL, Up, formatDate(now) >>
        ELSE << >>)
    \o (IF includeId THEN << NL >> \o idLine(noteId) ELSE << >>)

buildStandardizedFooter(noteId, now) ==
  << NL, NL, D, NL, Cr, formatDate(now), NL, Up, formatDate(now), NL >>
    \o idLine(noteId)

(***************************************************************************)
(* buildGMTOffset: the suffix of a timestamp, as a sequence of characters. *)
(***************************************************************************)
DigitChars == << "0", "1", "2", "3", "4", "5", "6", "7", "8", "9" >>

RECURSIVE toString(_)
\* Number.prototype.toString of a natural number, in base ten
toString(n) ==
  IF n < 10
  THEN << DigitChars[n + 1] >>
  ELSE toString(n \div 10) \o << DigitChars[(n % 10) + 1] >>

\* the padding lost: minutes.toString() alone
padStartNothing(str) == str

\* str.padStart(2, "0")
padStart(str) == IF Len(str) < 2 THEN << "0" >> \o str ELSE str

\* Math.abs
abs(n) == IF n < 0 THEN 0 - n ELSE n

buildGMTOffset(offsetMinutes) ==
  LET sign == IF offsetMinutes >= 0 THEN "+" ELSE "-"
      absOffset == abs(offsetMinutes)
      hours == absOffset \div 60
      minutes == absOffset % 60
  IN  IF minutes = 0
      THEN << "G", "M", "T", sign >> \o toString(hours)
      ELSE << "G", "M", "T", sign >> \o toString(hours) \o << ":" >>
             \o padStart(toString(minutes))

(***************************************************************************)
(* Paths of --content-file, as sequences of characters ("~", "/", and      *)
(* letters), with the POSIX functions of the path module.                  *)
(***************************************************************************)
\* str.startsWith(c)
startsWith(str, c) == str # << >> /\ str[1] = c

\* str.replace(c, by): the first c of str replaced
replace(str, c, by) ==
  LET at == {i \in 1..Len(str) : str[i] = c}
  IN  IF at = {}
      THEN str
      ELSE SubSeq(str, 1, Min(at) - 1) \o by
             \o SubSeq(str, Min(at) + 1, Len(str))

RECURSIVE collapseSlashes(_)
\* runs of "/" made one "/"
collapseSlashes(p) ==
  IF Len(p) < 2
  THEN p
  ELSE IF p[1] = "/" /\ p[2] = "/"
  THEN collapseSlashes(Tail(p))
  ELSE << p[1] >> \o collapseSlashes(Tail(p))

\* path.normalize, for paths without "." and ".." segments
normalize(p) == IF p = << >> THEN << "." >> ELSE collapseSlashes(p)

\* path.join(a, b): the non-empty arguments joined by "/", then normalized
join(a, b) ==
  IF a = << >> THEN normalize(b)
  ELSE IF b = << >> THEN normalize(a)
  ELSE normalize(a \o << "/" >> \o b)

\* path.isAbsolute
isAbsolute(p) == startsWith(p, "/")

\* a trailing "/" taken off (the root keeps its own)
withoutTrailingSlash(p) ==
  IF Len(p) > 1 /\ p[Len(p)] = "/" THEN SubSeq(p, 1, Len(p) - 1) ELSE p

\* path.resolve(cwd, p), cwd being absolute
resolve(cwd, p) ==
  IF isAbsolute(p)
  THEN withoutTrailingSlash(collapseSlashes(p))
  ELSE IF p \in {<< >>, << "." >>}
  THEN cwd
  ELSE withoutTrailingSlash(collapseSlashes(cwd \o << "/" >> \o p))

\* process.cwd()
Cwd == << "/", "c" >>

\* the path the body is read from (Create.run, UpdateText.run)
readPath(raw, envHome) ==
  LET expandedPath ==
        IF startsWith(raw, "~")
        THEN join(IF envHome # None THEN envHome ELSE << >>, Tail(raw))
        ELSE raw
  IN  IF isAbsolute(expandedPath)
      THEN expandedPath
      ELSE resolve(Cwd, expandedPath)

\* the path writeBackToFile writes to
writeBackPath(raw, envHome) ==
  LET expandedPath ==
        IF startsWith(raw, "~")
        THEN replace(raw, "~", IF envHome # None THEN envHome ELSE << "~" >>)
        ELSE raw
  IN  IF isAbsolute(expandedPath)
      THEN expandedPath
      ELSE resolve(Cwd, expandedPath)

(***************************************************************************)
(* The enhancement passes: what each workflow makes of a body.             *)
(***************************************************************************)
\* BatchUpdate.updateNote: the text sent to add-text
updateNoteText(content, noteId, cd, ai, now) ==
  IF cd \/ ai
  THEN stripExistingFooter(content) \o buildUpdateFooter(noteId, cd, ai, now)
  ELSE content

\* createNote with the footer of an update: buildUpdateFooter called in the
\* place of buildNewNoteFooter
createNoteTextAsUpdate(content, noteId, cd, ai, now) ==
  stripExistingFooter(content)
    \o (IF cd \/ ai THEN buildUpdateFooter(noteId, cd, ai, now) ELSE << >>)

\* BatchUpdate.createNote: the text sent to create
createNoteText(content, noteId, cd, ai, now) ==
  stripExistingFooter(content)
    \o (IF cd \/ ai THEN buildNewNoteFooter(noteId, cd, ai, now) ELSE << >>)

\* Create.updateExistingNote: the text sent to add-text (footer built inline)
updateExistingNoteText(content, noteId, cd, ai, now) ==
  IF cd \/ ai
  THEN stripExistingFooter(content)
         \o << NL, NL, D >>
         \o (IF cd
             THEN << NL, Cr, formatDate(now), NL, Up, formatDate(now) >>
             ELSE << >>)
         \o (IF ai THEN << NL >> \o idLine(noteId) ELSE << >>)
  ELSE content

\* Create.run, step 2: the text sent to add-text after the create call
\* (only reached when a flag is set and the create call gave an identifier)
newNoteText(text, noteId, cd, ai, now) ==
  stripExistingFooter(text) \o buildNewNoteFooter(noteId, cd, ai, now)

\* /---\s*\*Created:/.test(content)
hasCreationDate(content) ==
  \E i \in 1..Len(content) :
     /\ content[i] = D
     /\ LET j == WsRunEnd(content, i + 1)
        IN  j <= Len(content) /\ content[j] = Cr

\* /<!-- Note ID:/.test(content)
hasNoteId(content) == \E i \in 1..Len(content) : content[i] = MO

\* UpdateText.enhanceContent (noteId is "" when only a title is known)
enhanceContent(content, noteId, cd, ai, now) ==
  IF cd /\ ai /\ noteId # None
  THEN stripExistingFooter(content) \o buildStandardizedFooter(noteId, now)
  ELSE LET withDate == IF cd /\ ~hasCreationDate(content)
                       THEN content \o << NL, NL, D, NL, Cr, Tl >>
                       ELSE content
       IN  IF ai /\ noteId # None /\ ~hasNoteId(content)
           THEN withDate \o << NL >> \o idLine(noteId)
           ELSE withDate

(***************************************************************************)
(* State.                                                                  *)
(***************************************************************************)
VARIABLES
  body,   \* text functions: the input body
  tid,    \* text functions: the identifier handed to the footer builder
  fcd,    \* flag --creation-date
  fid,    \* flag --add-id
  clock,  \* what new Date() gives
  op,     \* text functions: the operation applied, "init" before
  res,    \* text functions: its result
  cmd,       \* the command that runs: "batch", "create", "update"
  pc,        \* where the command stands (the await it is suspended at)
  files,     \* the content of each file, by index in the sorted file list
  files0,    \* the content of each file when the command started
  remote,    \* the identifiers of the notes the remote store holds
  wb,        \* flag --write-back
  dry,       \* flag --dry-run
  flagId,    \* flag --id (None when not given)
  hasTitle,  \* flag --title given
  hasSearch, \* flag --search-term given
  useFile,   \* flag --content-file given
  idx,       \* batch: index of the file being processed
  processed, \* batch counters
  updated,
  created,
  skipped,
  errors,
  noteId,    \* the working identifier
  content,   \* the body in memory (content, args.text, args.content)
  enhanced,  \* enhancedContent
  log,       \* remote calls and file writes, in the order they were made
  warned,    \* update: the identifier mismatch warning was logged
  faults,    \* number of failures injected so far (transport, I/O)
  tzOffset,  \* minutes east of UTC: -date.getTimezoneOffset()
  rawPath,   \* the value of --content-file, a sequence of characters
  home,      \* process.env.HOME (None when not set)
  pipe       \* readPipe: stdin, the listeners, the timer and the promise

\* the value of pipe where readPipe is not looked at
NoPipe == [stdin |-> "none", at |-> "none", listening |-> FALSE,
           timer |-> "none", data |-> << >>, promise |-> "none",
           value |-> << >>]

textVars == << body, tid, op, res >>
flagVars == << fcd, fid, clock, wb, dry, flagId, hasTitle, hasSearch, useFile,
              tzOffset, rawPath, home, pipe >>
counters == << processed, updated, created, skipped, errors >>
wfVars == << cmd, pc, files, files0, remote, wb, dry, flagId, hasTitle,
             hasSearch, useFile, idx, processed, updated, created, skipped,
             errors, noteId, content, enhanced, log, warned, faults,
             tzOffset, rawPath, home, pipe >>

vars == << body, tid, fcd, fid, clock, op, res, cmd, pc, files, files0,
           remote, wb, dry, flagId, hasTitle, hasSearch, useFile, idx,
           processed, updated, created, skipped, errors, noteId, content,
           enhanced, log, warned, faults, tzOffset, rawPath, home, pipe >>

(***************************************************************************)
(* Bounded inputs of the text functions.                                   *)
(***************************************************************************)
MaxPieces == 3

Pieces ==
  { << X >>, << NL >>, << NL, NL, D >>,
    << NL, Cr, Ts1 >>, << NL, Up, Ts1 >>,
    << NL, MO, I1, SP, E >>, << MO, I2, SP, E >>,
    << MO >>, << I1, SP, E >>, << I3 >> }

RECURSIVE BodiesOf(_)
BodiesOf(k) ==
  IF k = 0
  THEN {<< >>}
  ELSE LET shorter == BodiesOf(k - 1)
       IN  shorter \cup {b \o p : b \in shorter, p \in Pieces}

Bodies == BodiesOf(MaxPieces)

\* identifiers in [A-F0-9-]+, and one outside it ("x")
ValidIds == {<< I1 >>, << I2, D, I3 >>}
TextIds == ValidIds \cup {<< X >>}

TextInit ==
  /\ body \in Bodies
  /\ tid \in TextIds
  /\ fcd \in BOOLEAN
  /\ fid \in BOOLEAN
  /\ clock = 1
  /\ op = "init"
  /\ res = << >>
  /\ cmd = "text" /\ pc = "text"
  /\ files = << >> /\ files0 = << >> /\ remote = {}
  /\ wb = FALSE /\ dry = FALSE
  /\ flagId = None /\ hasTitle = FALSE /\ hasSearch = FALSE
  /\ useFile = FALSE
  /\ idx = 0
  /\ processed = 0 /\ updated = 0 /\ created = 0 /\ skipped = 0
  /\ errors = 0
  /\ noteId = None /\ content = << >> /\ enhanced = << >>
  /\ log = << >> /\ warned = FALSE /\ faults = 0
  /\ tzOffset = 0
  /\ rawPath = << >> /\ home = None
  /\ pipe = NoPipe

Apply(name, id, text) ==
  /\ op = "init"
  /\ op' = name
  /\ tid' = id
  /\ res' = text
  /\ UNCHANGED << body, fcd, fid, clock, wfVars >>

\* stripExistingFooter on any body
TStrip == Apply("strip", tid, stripExistingFooter(body))

\* the body with the full update footer appended, stripped again
TRenderStrip ==
  Apply("renderStrip", tid,
        stripExistingFooter(body \o buildUpdateFooter(tid, TRUE, TRUE, clock)))

\* BatchUpdate.run -> updateNote: noteId is the marker found in the file
TBatchUpdate ==
  /\ detectNoteId(body) # None
  /\ Apply("updateNote", detectNoteId(body),
           updateNoteText(body, detectNoteId(body), fcd, fid, clock))

\* BatchUpdate.run -> createNote: noteId is the marker found in the file
TBatchCreate ==
  /\ detectNoteId(body) # None
  /\ Apply("createNote", detectNoteId(body),
           createNoteText(body, detectNoteId(body), fcd, fid, clock))

\* Create.run -> updateExistingNote: noteId is the marker found in the text
TUpdateExisting ==
  /\ detectNoteId(body) # None
  /\ Apply("updateExistingNote", detectNoteId(body),
           updateExistingNoteText(body, detectNoteId(body), fcd, fid, clock))

\* Create.run, no marker in the text: noteId is what the create call gave
TNewNote ==
  /\ detectNoteId(body) = None
  /\ IsValidId(tid)
  /\ fcd \/ fid
  /\ Apply("newNote", tid, newNoteText(body, tid, fcd, fid, clock))

\* UpdateText.run -> enhanceContent: noteId is --id, else the marker of the
\* content, else "" (note named by title)
TEnhance ==
  /\ body # << >>
  /\ \E supplied \in {tid, None} :
       LET working == IF supplied # None THEN supplied ELSE detectNoteId(body)
       IN  Apply("enhanceContent", working,
                 enhanceContent(body, working, fcd, fid, clock))

\* stripExistingFooter on the body followed by a marker line and one more
\* content line, with or without a blank line between them
TStripBetween ==
  /\ IsValidId(tid)
  /\ \E after \in {<< NL, X >>, << NL, NL, X >>} :
       Apply("stripBetween", tid,
             stripExistingFooter(body \o << NL >> \o idLine(tid) \o after))

\* detectNoteId on any body
TDetect == Apply("detect", tid, detectNoteId(body))

\* buildNewNoteFooter on its own, with every setting of its two flags
TNewFooter ==
  Apply("newFooter", tid, buildNewNoteFooter(tid, fcd, fid, clock))

\* buildUpdateFooter on its own, with every setting of its two flags
TUpdateFooter ==
  Apply("updateFooter", tid, buildUpdateFooter(tid, fcd, fid, clock))

TextNext ==
  \/ TStrip
  \/ TRenderStrip
  \/ TBatchUpdate
  \/ TBatchCreate
  \/ TUpdateExisting
  \/ TNewNote
  \/ TEnhance
  \/ TNewFooter
  \/ TUpdateFooter
  \/ TDetect
  \/ TStripBetween

SpecText == TextInit /\ [][TextNext]_vars

(***************************************************************************)
(* The UTC offsets buildGMTOffset is applied to.                           *)
(***************************************************************************)
\* the widest offsets in whole minutes: UTC-12:00 and UTC+14:00
MaxWest == 720
MaxEast == 840

OffsetInit ==
  /\ tzOffset \in (0 - MaxWest)..MaxEast
  /\ body = << >> /\ tid = None /\ op = "init" /\ res = << >>
  /\ fcd = FALSE /\ fid = FALSE /\ clock = 1
  /\ cmd = "offset" /\ pc = "offset"
  /\ files = << >> /\ files0 = << >> /\ remote = {}
  /\ wb = FALSE /\ dry = FALSE
  /\ flagId = None /\ hasTitle = FALSE /\ hasSearch = FALSE
  /\ useFile = FALSE
  /\ idx = 0
  /\ processed = 0 /\ updated = 0 /\ created = 0 /\ skipped = 0
  /\ errors = 0
  /\ noteId = None /\ content = << >> /\ enhanced = << >>
  /\ log = << >> /\ warned = FALSE /\ faults = 0
  /\ rawPath = << >> /\ home = None
  /\ pipe = NoPipe

\* buildGMTOffset(date) in a zone tzOffset minutes east of UTC
TOffset ==
  /\ cmd = "offset"
  /\ Apply("offset", tid, buildGMTOffset(tzOffset))

OffsetNext == TOffset

SpecOffset == OffsetInit /\ [][OffsetNext]_vars

(***************************************************************************)
(* The --content-file values and HOME settings the paths are resolved for. *)
(***************************************************************************)
MaxPathLen == 4

PathChars == {"~", "/", "a"}

RECURSIVE PathsOf(_)
PathsOf(k) ==
  IF k = 0
  THEN {<< >>}
  ELSE LET shorter == PathsOf(k - 1)
       IN  shorter \cup {Append(q, c) : q \in shorter, c \in PathChars}

\* --content-file is given: the value is not empty
RawPaths == PathsOf(MaxPathLen) \ {<< >>}

\* HOME not set, set, set with a trailing "/"
Homes == {None, << "/", "h" >>, << "/", "h", "/" >>}

PathInit ==
  /\ rawPath \in RawPaths
  /\ home \in Homes
  /\ body = << >> /\ tid = None /\ op = "init" /\ res = << >>
  /\ fcd = FALSE /\ fid = FALSE /\ clock = 1
  /\ cmd = "path" /\ pc = "path"
  /\ files = << >> /\ files0 = << >> /\ remote = {}
  /\ wb = FALSE /\ dry = FALSE
  /\ flagId = None /\ hasTitle = FALSE /\ hasSearch = FALSE
  /\ useFile = TRUE
  /\ idx = 0
  /\ processed = 0 /\ updated = 0 /\ created = 0 /\ skipped = 0
  /\ errors = 0
  /\ noteId = None /\ content = << >> /\ enhanced = << >>
  /\ log = << >> /\ warned = FALSE /\ faults = 0
  /\ tzOffset = 0
  /\ pipe = NoPipe

\* the read of the content file resolves its path
TReadPath ==
  /\ cmd = "path"
  /\ Apply("readPath", tid, readPath(rawPath, home))

\* writeBackToFile resolves its path
TWritePath ==
  /\ cmd = "path"
  /\ Apply("writeBackPath", tid, writeBackPath(rawPath, home))

PathNext ==
  \/ TReadPath
  \/ TWritePath

SpecPath == PathInit /\ [][PathNext]_vars

(***************************************************************************)
(* readPipe.  stdin is a terminal or a pipe; the writer of a pipe may send *)
(* chunks and may close it, at any time or never.                          *)
(***************************************************************************)
MaxChunks == 4

Chunks == {"a", "b"}

PipeInit ==
  /\ pipe \in {[NoPipe EXCEPT !.stdin = kind, !.at = "start",
                                !.promise = "pending"] :
                 kind \in {"tty", "open"}}
  /\ body = << >> /\ tid = None /\ op = "init" /\ res = << >>
  /\ fcd = FALSE /\ fid = FALSE /\ clock = 1
  /\ cmd = "pipe" /\ pc = "pipe"
  /\ files = << >> /\ files0 = << >> /\ remote = {}
  /\ wb = FALSE /\ dry = FALSE
  /\ flagId = None /\ hasTitle = FALSE /\ hasSearch = FALSE
  /\ useFile = FALSE
  /\ idx = 0
  /\ processed = 0 /\ updated = 0 /\ created = 0 /\ skipped = 0
  /\ errors = 0
  /\ noteId = None /\ content = << >> /\ enhanced = << >>
  /\ log = << >> /\ warned = FALSE /\ faults = 0
  /\ tzOffset = 0
  /\ rawPath = << >> /\ home = None

pipeFrame ==
  UNCHANGED << textVars, fcd, fid, clock, cmd, pc, files, files0, remote, wb,
               dry, flagId, hasTitle, hasSearch, useFile, idx, counters,
               noteId, content, enhanced, log, warned, faults, tzOffset,
               rawPath, home >>

\* resolve(v): a promise takes the first value it is resolved with
resolved(p, v) ==
  IF p.promise = "pending"
  THEN [p EXCEPT !.promise = "resolved", !.value = v]
  ELSE p

\* cleanup(): the three listeners are removed
cleanup(p) == [p EXCEPT !.listening = FALSE]

\* the executor of the promise: a terminal resolves "" at once; on a pipe
\* the listeners are put on and the 50 ms timer is set
readPipe ==
  /\ cmd = "pipe" /\ pipe.at = "start"
  /\ pipe' = IF pipe.stdin = "tty"
             THEN resolved([pipe EXCEPT !.at = "returned"], << >>)
             ELSE [pipe EXCEPT !.at = "returned", !.listening = TRUE,
                               !.timer = "set"]
  /\ pipeFrame

\* the writer sends a chunk: onData (or onReadable) adds it to data
onData ==
  /\ cmd = "pipe" /\ pipe.stdin = "open" /\ pipe.listening
  /\ Len(pipe.data) < MaxChunks
  /\ \E chunk \in Chunks : pipe' = [pipe EXCEPT !.data = Append(@, chunk)]
  /\ pipeFrame

\* the writer closes the pipe: onEnd, when it is still listening, resolves
\* with the data
onEnd ==
  /\ cmd = "pipe" /\ pipe.stdin = "open" /\ pipe.at = "returned"
  /\ pipe' = IF pipe.listening
             THEN resolved(cleanup([pipe EXCEPT !.stdin = "ended"]), pipe.data)
             ELSE [pipe EXCEPT !.stdin = "ended"]
  /\ pipeFrame

\* the callback of setTimeout: if (!data) { cleanup(); resolve("") }
onTimeout ==
  /\ cmd = "pipe" /\ pipe.timer = "set"
  /\ pipe' = IF pipe.data = << >>
             THEN resolved(cleanup([pipe EXCEPT !.timer = "fired"]), << >>)
             ELSE [pipe EXCEPT !.timer = "fired"]
  /\ pipeFrame

PipeNext ==
  \/ readPipe
  \/ onData
  \/ onEnd
  \/ onTimeout

\* the executor runs and a timer that is set fires; what the writer of the
\* pipe does is not in the hands of the program
SpecPipe ==
  /\ PipeInit
  /\ [][PipeNext]_vars
  /\ WF_vars(readPipe)
  /\ WF_vars(onTimeout)

(***************************************************************************)
(* The workflows.  Every remote call (bearExec) and every file write is    *)
(* one entry of log; a call is entered when it is made, with ok =          *)
(* "pending", and its entry gets the outcome when the await returns.       *)
(***************************************************************************)
NumFiles == 3
MaxFaults == 1

\* the bodies the files and arguments of a run are drawn from
PlainBody == << X >>
FooterBody ==
  << X, NL, NL, D, NL, Cr, Ts1, NL, MO, I1, SP, E >>
MarkerBody == << X, NL, MO, I2, SP, E >>
WorkBodies == {PlainBody, FooterBody, MarkerBody}

\* the notes the remote store holds when a command starts
Remote0 == {<< I1 >>}

RECURSIVE FreshFrom(_, _)
\* the identifier the store gives the next note it creates
FreshFrom(ids, candidate) ==
  IF candidate \in ids THEN FreshFrom(ids, candidate \o << I3 >>) ELSE candidate

FreshId(ids) == FreshFrom(ids, << I3 >>)

Call(kind, file, id, text) ==
  [kind |-> kind, file |-> file, id |-> id, text |-> text, ok |-> "pending"]

\* the outcome of the call that was awaited
Returned(outcome) == [log EXCEPT ![Len(log)].ok = outcome]

WriteEvent(file, text, outcome) ==
  [kind |-> "write", file |-> file, id |-> None, text |-> text, ok |-> outcome]

\* a failure may still be injected
MayFail == faults < MaxFaults

WorkflowTextVars ==
  /\ body = << >> /\ tid = None /\ op = "workflow" /\ res = << >>

BatchInit ==
  /\ WorkflowTextVars
  /\ cmd = "batch" /\ pc = "loop"
  /\ files \in [1..NumFiles -> WorkBodies]
  /\ files0 = files
  /\ remote = Remote0
  /\ fcd \in BOOLEAN /\ fid \in BOOLEAN /\ wb \in BOOLEAN /\ dry \in BOOLEAN
  /\ clock \in {1, 2}
  /\ flagId = None /\ hasTitle = FALSE /\ hasSearch = FALSE
  /\ useFile = FALSE
  /\ idx = 1
  /\ processed = 0 /\ updated = 0 /\ created = 0 /\ skipped = 0
  /\ errors = 0
  /\ noteId = None /\ content = << >> /\ enhanced = << >>
  /\ log = << >> /\ warned = FALSE /\ faults = 0
  /\ tzOffset = 0
  /\ rawPath = << >> /\ home = None
  /\ pipe = NoPipe

\* the for loop goes to the next file, or ends
NextFile ==
  /\ idx' = idx + 1
  /\ pc' = IF idx + 1 > Len(files) THEN "done" ELSE "loop"

\* a catch block that logs the error and does not count it
CatchErrorUncounted ==
  /\ errors' = errors
  /\ NextFile

\* the catch block of the loop body
CatchError ==
  /\ errors' = errors + 1
  /\ NextFile

\* the condition turned round: if (exists) createNote else updateNote
branchOfInverted(exists) == IF exists THEN "createNote" ELSE "updateNote"

\* if (!exists) createNote else updateNote
branchOf(exists) == IF exists THEN "updateNote" ELSE "createNote"

\* the rejection of bearExec swallowed, so that the write-back still runs
reachesWriteBackDespiteFailure(callOk, writeBack) == writeBack

\* await bearExec(...) throws when the call fails; the write-back below it
\* runs only behind flags["write-back"]
reachesWriteBack(callOk, writeBack) == callOk /\ writeBack

\* the flag not looked at: the loop goes on to the remote calls
isDryRunIgnored(flag) == FALSE

\* if (flags["dry-run"]) { processed++; continue; }
isDryRun(flag) == flag

\* the test lost: a file without a marker is processed like any other
skipsNothing(id) == FALSE

\* if (!noteId) { skipped++; continue; }
skipsFile(id) == id = None

\* BatchUpdate.run, loop body up to the first await: read, detect, skip,
\* dry-run
BatchBegin ==
  /\ cmd = "batch" /\ pc = "loop"
  /\ \/ \* readFileSync throws
        /\ MayFail
        /\ faults' = faults + 1
        /\ CatchError
        /\ UNCHANGED << content, noteId, skipped, processed, log >>
     \/ /\ content' = files[idx]
        /\ noteId' = detectNoteId(files[idx])
        /\ IF skipsFile(detectNoteId(files[idx]))
           THEN /\ skipped' = skipped + 1
                /\ NextFile
                /\ UNCHANGED << processed, log >>
           ELSE IF isDryRun(dry)
           THEN /\ processed' = processed + 1
                /\ NextFile
                /\ UNCHANGED << skipped, log >>
           ELSE /\ pc' = "noteExists"
                /\ log' = Append(log,
                     Call("open-note", idx, detectNoteId(files[idx]), << >>))
                /\ UNCHANGED << idx, skipped, processed >>
        /\ UNCHANGED << errors, faults >>
  /\ UNCHANGED << textVars, flagVars, cmd, files, files0, remote, updated,
                  created, enhanced, warned >>

\* noteExists returns; createNote or updateNote builds the text and makes
\* its call
BatchExistsReturn ==
  /\ cmd = "batch" /\ pc = "noteExists"
  /\ \E exists \in BOOLEAN :
       /\ exists => noteId \in remote
       /\ (~exists /\ noteId \in remote) => MayFail
       /\ faults' = IF ~exists /\ noteId \in remote THEN faults + 1 ELSE faults
       /\ pc' = branchOf(exists)
       /\ LET text == IF branchOf(exists) = "createNote"
                      THEN createNoteText(content, noteId, fcd, fid, clock)
                      ELSE updateNoteText(content, noteId, fcd, fid, clock)
              call == IF branchOf(exists) = "createNote"
                      THEN Call("create", idx, None, text)
                      ELSE Call("add-text", idx, noteId, text)
          IN  /\ enhanced' = text
              /\ log' = Append(Returned(IF exists THEN "ok" ELSE "fail"), call)
  /\ UNCHANGED << textVars, flagVars, cmd, files, files0, remote, idx,
                  counters, noteId, content, warned >>

\* the rest of createNote / updateNote after its await, and the counters of
\* the loop body
BatchMutateReturn ==
  /\ cmd = "batch" /\ pc \in {"createNote", "updateNote"}
  /\ \E callOk \in BOOLEAN, writeOk \in BOOLEAN :
       /\ ~callOk => (MayFail /\ writeOk)
       /\ ~writeOk => (MayFail /\ wb)
       /\ faults' = IF callOk /\ writeOk THEN faults ELSE faults + 1
       /\ remote' = IF callOk /\ pc = "createNote"
                    THEN remote \cup {FreshId(remote)}
                    ELSE remote
       /\ LET answered ==
                IF callOk /\ pc = "createNote"
                THEN [Returned("ok") EXCEPT ![Len(log)].id = FreshId(remote)]
                ELSE Returned(IF callOk THEN "ok" ELSE "fail")
          IN  IF reachesWriteBack(callOk, wb)
              THEN /\ log' = Append(answered,
                          WriteEvent(idx, enhanced,
                                     IF writeOk THEN "ok" ELSE "fail"))
                   /\ files' = IF writeOk
                               THEN [files EXCEPT ![idx] = enhanced]
                               ELSE files
              ELSE /\ log' = answered
                   /\ files' = files
       /\ IF callOk /\ writeOk
          THEN /\ created' = IF pc = "createNote" THEN created + 1 ELSE created
               /\ updated' = IF pc = "updateNote" THEN updated + 1 ELSE updated
               /\ processed' = processed + 1
               /\ NextFile
               /\ UNCHANGED errors
          ELSE /\ CatchError
               /\ UNCHANGED << created, updated, processed >>
  /\ UNCHANGED << textVars, flagVars, cmd, files0, skipped, noteId, content,
                  enhanced, warned >>

(***************************************************************************)
(* The single-file commands.  The content file, when given, is file 1.     *)
(***************************************************************************)
\* the file index that log entries of a single-file command carry
OriginFile == IF useFile THEN 1 ELSE 0

\* a body without a marker that ends in two newlines
TrailingBody == << X, NL, NL >>

\* the texts a single-file command may be given (none at all included)
SingleBodies == WorkBodies \cup {<< >>, TrailingBody}

SingleInit(name) ==
  /\ WorkflowTextVars
  /\ cmd = name /\ pc = "start"
  /\ useFile \in BOOLEAN
  /\ \E b \in SingleBodies :
        /\ useFile => b # << >>
        /\ files = IF useFile THEN << b >> ELSE << >>
        /\ content = IF useFile THEN << >> ELSE b
  /\ files0 = files
  /\ remote = Remote0
  /\ fcd \in BOOLEAN /\ fid \in BOOLEAN /\ wb \in BOOLEAN /\ dry = FALSE
  /\ clock \in {1, 2}
  /\ idx = 0
  /\ processed = 0 /\ updated = 0 /\ created = 0 /\ skipped = 0
  /\ errors = 0
  /\ noteId = None /\ enhanced = << >>
  /\ log = << >> /\ warned = FALSE /\ faults = 0
  /\ tzOffset = 0
  /\ rawPath = << >> /\ home = None
  /\ pipe = NoPipe

CreateInit ==
  /\ SingleInit("create")
  /\ flagId = None /\ hasTitle = FALSE /\ hasSearch = FALSE

UpdateInit ==
  /\ SingleInit("update")
  /\ flagId \in {None, << I1 >>, << I2 >>}
  /\ hasTitle \in BOOLEAN
  /\ hasSearch \in BOOLEAN

\* if (flags["write-back"] && flags["content-file"])
doesWriteBack == wb /\ useFile

\* a write can only fail where one is made
WriteOutcome(writeOk) == ~writeOk => (MayFail /\ doesWriteBack)

\* writeBackToFile: the file after it (a failed write is only a warning)
FilesAfterWriteBack(text, writeOk) ==
  IF doesWriteBack /\ writeOk THEN [files EXCEPT ![1] = text] ELSE files

\* writeBackToFile: the log after it, logBefore being the log so far
LogAfterWriteBack(logBefore, text, writeOk) ==
  IF doesWriteBack
  THEN Append(logBefore, WriteEvent(1, text, IF writeOk THEN "ok" ELSE "fail"))
  ELSE logBefore

\* this.error(...) or a rejected bearExec that nothing catches
Fatal == pc' = "fatal"

\* Create.run up to its first await: read the content file, look for an
\* embedded marker, then make the add-text call of updateExistingNote or the
\* create call
CreateStart ==
  /\ cmd = "create" /\ pc = "start"
  /\ \/ \* the content file is missing or unreadable
        /\ useFile /\ MayFail
        /\ faults' = faults + 1
        /\ Fatal
        /\ UNCHANGED << content, noteId, enhanced, log >>
     \/ LET text == IF useFile THEN files[1] ELSE content
            embeddedId == IF text # << >> THEN detectNoteId(text) ELSE None
            newText == updateExistingNoteText(text, embeddedId, fcd, fid, clock)
        IN  /\ content' = text
            /\ noteId' = embeddedId
            /\ IF embeddedId # None
               THEN /\ enhanced' = newText
                    /\ log' = Append(log,
                         Call("add-text", OriginFile, embeddedId, newText))
                    /\ pc' = "updateExisting"
               ELSE /\ enhanced' = enhanced
                    /\ log' = Append(log, Call("create", OriginFile, None, text))
                    /\ pc' = "createCall"
            /\ UNCHANGED faults
  /\ UNCHANGED << textVars, flagVars, cmd, files, files0, remote, idx,
                  counters, warned >>

\* the create call returns; with a footer flag set the add-text call follows
CreateCallReturn ==
  /\ cmd = "create" /\ pc = "createCall"
  /\ \/ /\ MayFail
        /\ faults' = faults + 1
        /\ log' = Returned("fail")
        /\ Fatal
        /\ UNCHANGED << remote, noteId, enhanced >>
     \/ LET id == FreshId(remote)
            answered == [Returned("ok") EXCEPT ![Len(log)].id = id]
            newText == newNoteText(content, id, fcd, fid, clock)
        IN  /\ remote' = remote \cup {id}
            /\ noteId' = id
            /\ IF fcd \/ fid
               THEN /\ enhanced' = newText
                    /\ log' = Append(answered,
                                     Call("add-text", OriginFile, id, newText))
                    /\ pc' = "footer"
               ELSE /\ enhanced' = enhanced
                    /\ log' = answered
                    /\ pc' = "done"
            /\ UNCHANGED faults
  /\ UNCHANGED << textVars, flagVars, cmd, files, files0, idx, counters,
                  content, warned >>

\* an add-text call that names a note by id can succeed only if the store
\* holds that note; a note named by title may or may not be found
AddTextOutcome(callOk) ==
  /\ (callOk /\ noteId # None) => noteId \in remote
  /\ (~callOk /\ noteId \in remote) => MayFail

\* the add-text call of Create.run (footer) or of updateExistingNote
\* returns; write-back follows
CreateAddTextReturn ==
  /\ cmd = "create" /\ pc \in {"footer", "updateExisting"}
  /\ \E callOk \in BOOLEAN, writeOk \in BOOLEAN :
       /\ AddTextOutcome(callOk)
       /\ IF callOk
          THEN /\ WriteOutcome(writeOk)
               /\ files' = FilesAfterWriteBack(enhanced, writeOk)
               /\ log' = LogAfterWriteBack(Returned("ok"), enhanced, writeOk)
               /\ faults' = IF writeOk THEN faults ELSE faults + 1
               /\ pc' = "done"
          ELSE /\ writeOk
               /\ files' = files
               /\ log' = Returned("fail")
               /\ faults' = IF noteId \in remote THEN faults + 1 ELSE faults
               /\ Fatal
  /\ UNCHANGED << textVars, flagVars, cmd, files0, remote, idx, counters,
                  noteId, content, enhanced, warned >>

\* what open-note may give as the text of a note
RemoteContents == {<< >>, FooterBody, MarkerBody}

\* UpdateText.run from "Enhance content" to the add-text call: enhance the
\* content text with the working identifier nid, write back, make the call;
\* logBefore is the log so far
UpdateEnhanceAndCall(text, nid, logBefore, writeOk) ==
  LET newText == IF text # << >>
                 THEN enhanceContent(text, nid, fcd, fid, clock)
                 ELSE text
      written == text # << >> /\ doesWriteBack
  IN  /\ ~writeOk => (MayFail /\ written)
      /\ enhanced' = newText
      /\ files' = IF written
                  THEN FilesAfterWriteBack(newText, writeOk)
                  ELSE files
      /\ log' = Append(IF written
                       THEN LogAfterWriteBack(logBefore, newText, writeOk)
                       ELSE logBefore,
                       Call("add-text", OriginFile, nid, newText))
      /\ pc' = "addText"

\* the embedded marker preferred to --id
workingIdMarkerFirst(supplied, text) ==
  IF text # << >> /\ detectNoteId(text) # None
  THEN detectNoteId(text)
  ELSE supplied

\* let noteId = flags.id; if (!noteId && args.content) the embedded
\* identifier, when one is detected, becomes noteId
workingId(supplied, text) ==
  IF supplied # None THEN supplied
  ELSE IF text # << >> THEN detectNoteId(text)
  ELSE None

\* UpdateText.run up to its first await: read the content file, choose the
\* working identifier, then search, open the note, or (title only) enhance
\* and call add-text
UpdateStart ==
  /\ cmd = "update" /\ pc = "start"
  /\ \/ \* the content file is missing or unreadable
        /\ useFile /\ MayFail
        /\ faults' = faults + 1
        /\ Fatal
        /\ UNCHANGED << content, noteId, enhanced, log, files >>
     \/ LET text == IF useFile THEN files[1] ELSE content
            nid == workingId(flagId, text)
        IN  /\ content' = text
            /\ noteId' = nid
            /\ IF nid = None /\ ~hasTitle /\ hasSearch
               THEN /\ log' = Append(log, Call("search", OriginFile, None, << >>))
                    /\ pc' = "search"
                    /\ UNCHANGED << enhanced, files, faults >>
               ELSE IF nid = None /\ ~hasTitle
               THEN /\ Fatal
                    /\ UNCHANGED << enhanced, files, faults, log >>
               ELSE IF nid # None
               THEN /\ log' = Append(log,
                                     Call("open-note", OriginFile, nid, << >>))
                    /\ pc' = "getNoteContent"
                    /\ UNCHANGED << enhanced, files, faults >>
               ELSE \E writeOk \in BOOLEAN :
                      /\ UpdateEnhanceAndCall(text, nid, log, writeOk)
                      /\ faults' = IF writeOk THEN faults ELSE faults + 1
  /\ UNCHANGED << textVars, flagVars, cmd, files0, remote, idx, counters,
                  warned >>

\* findNoteBySearch returns: an error is fatal, no result leaves no note
\* specified, a result names a note of the store, which is then opened
UpdateSearchReturn ==
  /\ cmd = "update" /\ pc = "search"
  /\ \/ /\ MayFail
        /\ faults' = faults + 1
        /\ log' = Returned("fail")
        /\ Fatal
        /\ UNCHANGED noteId
     \/ /\ log' = Returned("ok")
        /\ Fatal
        /\ UNCHANGED << noteId, faults >>
     \/ \E found \in remote :
          /\ noteId' = found
          /\ log' = Append([Returned("ok") EXCEPT ![Len(log)].id = found],
                           Call("open-note", OriginFile, found, << >>))
          /\ pc' = "getNoteContent"
          /\ UNCHANGED faults
  /\ UNCHANGED << textVars, flagVars, cmd, files, files0, remote, idx,
                  counters, content, enhanced, warned >>

\* detectedId && detectedId !== noteId: the mismatch warning is logged
mismatch(detectedId, nid) == detectedId # None /\ detectedId # nid

\* getNoteContent returns (a failure gives ""); the embedded identifier of
\* the note text is compared, the content is enhanced and written back, and
\* add-text is called
UpdateOpenReturn ==
  /\ cmd = "update" /\ pc = "getNoteContent"
  /\ \E openOk \in BOOLEAN, writeOk \in BOOLEAN, noteText \in RemoteContents :
       /\ openOk => noteId \in remote
       /\ (~openOk /\ noteId \in remote) => MayFail
       /\ ~openOk => noteText = << >>
       /\ LET openFault == IF ~openOk /\ noteId \in remote THEN 1 ELSE 0
          IN  /\ openFault = 1 => writeOk
              /\ faults' = faults + openFault + (IF writeOk THEN 0 ELSE 1)
       /\ warned' = mismatch(detectNoteId(noteText), noteId)
       /\ UpdateEnhanceAndCall(content, noteId,
                               Returned(IF openOk THEN "ok" ELSE "fail"),
                               writeOk)
  /\ UNCHANGED << textVars, flagVars, cmd, files0, remote, idx, counters,
                  noteId, content >>

\* the add-text call of UpdateText.run returns
UpdateAddTextReturn ==
  /\ cmd = "update" /\ pc = "addText"
  /\ \E callOk \in BOOLEAN :
       /\ AddTextOutcome(callOk)
       /\ faults' = IF ~callOk /\ noteId \in remote THEN faults + 1 ELSE faults
       /\ log' = Returned(IF callOk THEN "ok" ELSE "fail")
       /\ pc' = IF callOk THEN "done" ELSE "fatal"
  /\ UNCHANGED << textVars, flagVars, cmd, files, files0, remote, idx,
                  counters, noteId, content, enhanced, warned >>

Init == BatchInit \/ CreateInit \/ UpdateInit

Next ==
  \/ BatchBegin
  \/ BatchExistsReturn
  \/ BatchMutateReturn
  \/ CreateStart
  \/ CreateCallReturn
  \/ CreateAddTextReturn
  \/ UpdateStart
  \/ UpdateSearchReturn
  \/ UpdateOpenReturn
  \/ UpdateAddTextReturn

Spec == Init /\ [][Next]_vars

(***************************************************************************)
(* Properties of the text functions (checked under SpecText).              *)
(***************************************************************************)
\* the number of identity markers in a text
MarkerCount(s) == Cardinality(MarkerStarts(s))

\* the number of footer blocks: a "---" line followed by a footer line
FooterBlockCount(s) ==
  Cardinality({i \in 1..Len(s) :
     /\ s[i] = D
     /\ (i = 1 \/ s[i - 1] = NL)
     /\ i + 2 <= Len(s)
     /\ s[i + 1] = NL
     /\ s[i + 2] \in {Cr, Up, MO}})

\* the last line of the text is an identity marker
MarkerIsFinalLine(s) ==
  \E i \in MarkerStarts(s) :
     /\ MarkerEndAt(s, i) = Len(s) + 1
     /\ i > 1 /\ s[i - 1] = NL

\* the pass named by op, applied once more with the same identifier, flags
\* and time
Again(name, text) ==
  CASE name = "updateNote" -> updateNoteText(text, tid, fcd, fid, clock)
    [] name = "createNote" -> createNoteText(text, tid, fcd, fid, clock)
    [] name = "updateExistingNote" ->
         updateExistingNoteText(text, tid, fcd, fid, clock)
    [] name = "newNote" -> newNoteText(text, tid, fcd, fid, clock)
    [] name = "enhanceContent" -> enhanceContent(text, tid, fcd, fid, clock)
    [] OTHER -> text

UpdatePasses == {"updateNote", "updateExistingNote", "enhanceContent"}
IdPasses == UpdatePasses \cup {"createNote", "newNote"}

\* C1: stripping is idempotent: stripping the result of stripExistingFooter
\* once more gives the same text.
C1_StripIdempotent ==
  op = "strip" => stripExistingFooter(res) = res

\* C2 (as claimed): for every body B and every non-empty identifier,
\* stripping B with the full update footer appended gives B with its
\* trailing newlines collapsed.
C2_RoundTripEveryBody ==
  op = "renderStrip" => res = CollapseTrailingNewlines(body)

\* C2 (amended): the round trip holds for every body that holds no identity
\* marker and does not end in a "---" separator, and every identifier made
\* of [A-F0-9-] only.
C2_RoundTripBareBody ==
  (/\ op = "renderStrip"
   /\ IsValidId(tid)
   /\ MarkerStarts(body) = {}
   /\ StripTrailingSeparator(body) = body)
  => res = CollapseTrailingNewlines(body)

\* C2 witness: a bare body with two trailing newlines came back with one.
C2_Witness ==
  /\ op = "renderStrip"
  /\ IsValidId(tid)
  /\ body = << X, NL, NL >>
  /\ res = << X, NL >>

\* C3: a body that holds at least one identity marker holds none after
\* stripExistingFooter: detectNoteId finds nothing in the result.
C3_StripRemovesEveryMarker ==
  (op = "strip" /\ MarkerCount(body) >= 1) => detectNoteId(res) = None

\* C4: the update pass (strip, then append the footer) applied to its own
\* result, with the same identifier, flags and time, gives that result again.
C4_ConvergesAfterOnePass ==
  (op \in UpdatePasses /\ IsValidId(tid)) => Again(op, res) = res

\* C5: the body an enhancement pass produces holds at most one identity
\* marker and at most one footer block, and with the add-id flag set the
\* marker is its last line.
C5_OneMarkerOneFooter ==
  (op \in IdPasses /\ IsValidId(tid))
  => /\ MarkerCount(res) <= 1
     /\ FooterBlockCount(res) <= 1
     /\ (fid => MarkerIsFinalLine(res))

(***************************************************************************)
(* Properties of the workflows (checked under Spec).                       *)
(***************************************************************************)
MutationKinds == {"create", "add-text"}

\* entry k of the log is a file write that follows a remote mutation call
\* for the same file which carried the same text and succeeded
WriteFollowsMutation(k) ==
  \E j \in 1..(k - 1) :
     /\ log[j].kind \in MutationKinds
     /\ log[j].file = log[k].file
     /\ log[j].text = log[k].text
     /\ log[j].ok = "ok"

\* every file write in the log follows its successful mutation call, and a
\* file differs from what it was only if such a call carried its new text
WriteBackOnlyAfterSuccess ==
  /\ \A k \in 1..Len(log) :
        (log[k].kind = "write" /\ log[k].ok = "ok") => WriteFollowsMutation(k)
  /\ \A f \in DOMAIN files :
        files[f] # files0[f] =>
          \E j \in 1..Len(log) :
             /\ log[j].kind \in MutationKinds
             /\ log[j].file = f
             /\ log[j].text = files[f]
             /\ log[j].ok = "ok"

\* C6: in the batch driver a file is written only after the remote mutation
\* call (add-text or create) for that file has succeeded, and a file whose
\* call failed keeps its content.
C6_BatchWriteBackAfterMutation ==
  cmd = "batch" => WriteBackOnlyAfterSuccess

\* C6 witness: a batch in which one file was written back after its call
\* and another file, whose call failed, kept its content.
C6_Witness ==
  /\ cmd = "batch"
  /\ \E k \in 1..Len(log) : log[k].kind = "write" /\ log[k].ok = "ok"
  /\ \E j \in 1..Len(log) :
        /\ log[j].kind \in MutationKinds
        /\ log[j].ok = "fail"
        /\ files[log[j].file] = files0[log[j].file]

\* C7: in the create and update commands the origin file is written only
\* after the store call that carries the enhanced body has succeeded, and a
\* failed store call leaves the file as it was.
C7_SingleWriteBackAfterStoreCall ==
  cmd \in {"create", "update"} => WriteBackOnlyAfterSuccess

\* C8: every add-text on a working identifier follows a successful
\* open-note on that identifier (or the create call that returned it), and
\* after an open-note that reports the note missing the next mutation is a
\* create.
C8_ExistenceCheckBeforeUpdate ==
  \A k \in 1..Len(log) :
     /\ (log[k].kind = "add-text" /\ log[k].id # None) =>
          \E j \in 1..(k - 1) :
             /\ log[j].kind \in {"open-note", "create"}
             /\ log[j].id = log[k].id
             /\ log[j].ok = "ok"
     /\ (log[k].kind = "open-note" /\ log[k].ok = "fail" /\ k < Len(log)) =>
          log[k + 1].kind = "create"

\* C9: in the update command, when --id and the marker of the processed
\* body name different notes, the mismatch warning is logged and the
\* working identifier, which add-text is called with, is the one of --id.
C9_IdentityConflictReported ==
  (/\ cmd = "update"
   /\ pc \in {"addText", "done"}
   /\ flagId # None
   /\ detectNoteId(content) # None
   /\ detectNoteId(content) # flagId)
  => /\ warned
     /\ noteId = flagId
     /\ \E k \in 1..Len(log) : log[k].kind = "add-text" /\ log[k].id = flagId

\* the files before index i of the batch that satisfy P
FilesBefore(i, P(_)) == {f \in 1..(i - 1) : P(files0[f])}

NoMarker(b) == detectNoteId(b) = None
MarkerOfExisting(b) == detectNoteId(b) # None /\ detectNoteId(b) \in Remote0
MarkerOfMissing(b) == detectNoteId(b) # None /\ detectNoteId(b) \notin Remote0

\* the counters after the files before idx, when each file had its outcome
CountsFollowOutcomes ==
  /\ skipped = Cardinality(FilesBefore(idx, NoMarker))
  /\ updated = Cardinality(FilesBefore(idx, MarkerOfExisting))
  /\ created = Cardinality(FilesBefore(idx, MarkerOfMissing))
  /\ errors = 0

\* C10 (as claimed): in a batch in which nothing fails, after each file the
\* counters are: skipped = files without a marker, updated = files whose
\* marker names an existing note, created = files whose marker names a note
\* that does not exist, errors = 0.
C10_BatchCountsEveryRun ==
  (cmd = "batch" /\ pc \in {"loop", "done"} /\ faults = 0)
  => CountsFollowOutcomes

\* C10 (amended): the same, for a batch that runs with dry-run off.
C10_BatchCounts ==
  (cmd = "batch" /\ pc \in {"loop", "done"} /\ faults = 0 /\ ~dry)
  => CountsFollowOutcomes

\* C10 witness: the batch of three files (no marker, marker of an existing
\* note, marker of a missing note) ended with 1 skipped, 1 updated, 1 created.
C10_Witness ==
  /\ cmd = "batch" /\ pc \in {"loop", "done"} /\ faults = 0 /\ ~dry
  /\ SubSeq(files0, 1, 3) = << PlainBody, FooterBody, MarkerBody >>
  /\ idx = 4
  /\ skipped = 1 /\ updated = 1 /\ created = 1 /\ errors = 0

\* entry k of the log is a step that failed: a write or a call that failed,
\* the answer "no such note" of open-note not being a failure
StepFailed(k) ==
  /\ log[k].ok = "fail"
  /\ (log[k].kind = "open-note" => log[k].id \in Remote0)

\* the files before idx at which a remote call or a file write failed
FilesThatFailed ==
  {f \in 1..(idx - 1) : \E k \in 1..Len(log) : log[k].file = f /\ StepFailed(k)}

\* C11: in the batch driver every file at which a step failed (read,
\* existence check, remote mutation, write-back) is counted in errors, once,
\* every file is counted in exactly one of errors, skipped and processed, and
\* the loop ends only after the last file.
C11_BatchFailureIsolated ==
  (cmd = "batch" /\ pc \in {"loop", "done"})
  => /\ Cardinality(FilesThatFailed) <= errors
     /\ errors <= faults
     /\ errors + skipped + processed = idx - 1
     /\ (pc = "done" => idx = Len(files) + 1)


\* C12: in the batch driver a file in which no marker is detected gets no
\* remote call (no open-note, create or add-text) and no write, keeps its
\* content, and adds one to skipped and to nothing else.
C12_BatchSkipsUnmarked ==
  cmd = "batch"
  => /\ \A f \in DOMAIN files :
          NoMarker(files0[f])
          => /\ files[f] = files0[f]
             /\ \A k \in 1..Len(log) : log[k].file # f
     /\ (pc \in {"loop", "done"} /\ faults = 0)
        => /\ skipped = Cardinality(FilesBefore(idx, NoMarker))
           /\ processed + skipped = idx - 1

\* C12 witness: a batch that wrote one file back ended with a file without
\* a marker skipped, untouched and absent from the log.
C12_Witness ==
  /\ cmd = "batch" /\ pc = "done" /\ faults = 0
  /\ NoMarker(files0[1]) /\ ~NoMarker(files0[2])
  /\ skipped >= 1
  /\ files[1] = files0[1]
  /\ \E k \in 1..Len(log) : log[k].kind = "write" /\ log[k].file = 2
  /\ \A k \in 1..Len(log) : log[k].file # 1


\* the body that the mutation call of log entry k was made for
SentBody(k) == IF cmd = "batch" THEN files0[log[k].file] ELSE content

\* C13: with neither --creation-date nor --add-id, the text of every create
\* and add-text call is the stripped body (footer and stray markers removed)
\* with nothing appended, in the batch driver, the create command and the
\* update command.
C13_NoFlagPassThrough ==
  (~fcd /\ ~fid)
  => \A k \in 1..Len(log) :
        log[k].kind \in MutationKinds
        => log[k].text = stripExistingFooter(SentBody(k))


(***************************************************************************)
(* More properties of the text functions (checked under SpecText).         *)
(***************************************************************************)
\* token t occurs in the text
Holds(s, t) == \E i \in 1..Len(s) : s[i] = t

WellFormedAt(s, i, n) ==
  /\ n >= 1
  /\ i + n + 2 <= Len(s)
  /\ s[i] = MO
  /\ \A j \in (i + 1)..(i + n) : s[j] \in {I1, I2, I3, D}
  /\ s[i + n + 1] = SP
  /\ s[i + n + 2] = E

\* C19: detectNoteId returns none exactly when the body holds no well-formed
\* marker (a marker-like piece with a character outside [A-F0-9-] or without
\* the closing delimiter counts as absent); otherwise it returns the
\* non-empty token, made of [A-F0-9-] only, of the first well-formed marker.
C19_DetectIsStrict ==
  op = "detect"
  => /\ res = None <=> ~\E i \in 1..Len(body), n \in 1..Len(body) :
                            WellFormedAt(body, i, n)
     /\ res # None
        => /\ \A j \in 1..Len(res) : res[j] \in {I1, I2, I3, D}
           /\ \E i \in 1..Len(body) :
                 /\ WellFormedAt(body, i, Len(res))
                 /\ SubSeq(body, i + 1, i + Len(res)) = res
                 /\ \A h \in 1..(i - 1), n \in 1..Len(body) :
                       ~WellFormedAt(body, h, n)

\* C19 witness: in a body whose only marker-like piece has a character
\* outside the set before its token, nothing was found.
C19_Witness ==
  /\ op = "detect"
  /\ body = << MO, X, I1, SP, E >>
  /\ res = None

\* the body holds no footer block and no identity marker
FooterFree(s) == FooterBlockCount(s) = 0 /\ MarkerCount(s) = 0

\* the body ends in a standalone "---" separator (white space may follow)
EndsInSeparator(s) == \E i \in 1..Len(s) : SeparatorAt(s, i)

\* C20 (as claimed): for every body without a footer and without an
\* identity marker, stripExistingFooter gives the body with its trailing
\* newlines collapsed to one and nothing else changed.
C20_StripLeavesFooterFree ==
  (op = "strip" /\ FooterFree(body))
  => res = CollapseTrailingNewlines(body)

\* C20 (amended): the same, for a body that does not end in a standalone
\* "---" separator line either.
C20_StripLeavesBareBody ==
  (op = "strip" /\ FooterFree(body) /\ ~EndsInSeparator(body))
  => res = CollapseTrailingNewlines(body)

\* C20 witness: a bare body with a "---" line before its last line came
\* back as it was.
C20_Witness ==
  /\ op = "strip"
  /\ body = << NL, NL, D, X >>
  /\ FooterFree(body) /\ ~EndsInSeparator(body)
  /\ res = body

\* the text is made of content and newlines only and ends in content
EndsInContentLine(s) ==
  /\ s # << >>
  /\ s[Len(s)] = X
  /\ \A i \in 1..Len(s) : s[i] \in {X, NL}

\* the number of content tokens in the text
ContentCount(s) == Cardinality({i \in 1..Len(s) : s[i] = X})

\* C27: when a marker line stands between the last content line of the
\* body and one more content line, stripExistingFooter removes the marker
\* and leaves the two lines apart: the result ends in a newline followed by
\* the last line, and holds the content of the body and that line, all of
\* it and nothing else.
C27_StripKeepsLinesApart ==
  (op = "stripBetween" /\ EndsInContentLine(body))
  => /\ Len(res) >= Len(body) + 2
     /\ SubSeq(res, 1, Len(body)) = body
     /\ res[Len(res)] = X
     /\ res[Len(res) - 1] = NL
     /\ ContentCount(res) = ContentCount(body) + 1
     /\ ~Holds(res, MO)

(***************************************************************************)
(* More properties of the workflows (checked under Spec).                  *)
(***************************************************************************)
\* the text of the last create or add-text call that was made
LastSent ==
  LET calls == {k \in 1..Len(log) : log[k].kind \in MutationKinds}
  IN  log[CHOOSE k \in calls : \A j \in calls : j <= k].text

\* text is base with a footer behind it; the footer
FooterBehind(base, text) == SubSeq(text, Len(base) + 1, Len(text))

\* the creation footer as the flags ask for it: the separator, a Created
\* line if includeCreated, a marker line with id if includeId, and nothing
\* at all when neither is set
CreationFooters(id, includeCreated, includeId) ==
  IF ~includeCreated /\ ~includeId
  THEN {<< >>}
  ELSE {<< NL, NL, D >>
          \o (IF includeCreated THEN << NL, Cr, ts >> ELSE << >>)
          \o (IF includeId THEN << NL >> \o idLine(id) ELSE << >>) :
        ts \in {Ts1, Ts2}}

\* C15: the create command on a body without a marker leaves the note with
\* the stripped body followed by the creation footer: a Created line exactly
\* when --creation-date is set, no Last Updated line, and with --add-id a
\* final marker line that carries the identifier the create call returned,
\* which detectNoteId finds in the text.
C15_CreateOutcome ==
  (cmd = "create" /\ pc = "done" /\ detectNoteId(content) = None)
  => LET stripped == stripExistingFooter(content)
         footer == FooterBehind(stripped, LastSent)
     IN  /\ Len(LastSent) >= Len(stripped)
         /\ SubSeq(LastSent, 1, Len(stripped)) = stripped
         /\ log[1].kind = "create" /\ log[1].id = noteId
         /\ footer \in CreationFooters(noteId, fcd, fid)
         /\ fid => /\ MarkerIsFinalLine(LastSent)
                   /\ detectNoteId(LastSent) = noteId


\* entry k of the log is the add-text call of an update (not the add-text
\* that the create command makes after its create call)
IsUpdateCall(k) ==
  /\ log[k].kind = "add-text"
  /\ ~(cmd = "create" /\ log[1].kind = "create")

\* the text holds a Created line and, right after it, a Last Updated line,
\* both with timestamp t
HasUpdateLines(text, t) ==
  \E i \in 1..Len(text) :
     /\ i + 5 <= Len(text)
     /\ SubSeq(text, i, i + 5) = << NL, Cr, t, NL, Up, t >>

\* C16: with --creation-date set, the text of every add-text call that
\* updates a note from a body (batch driver, create command on a body with
\* a marker, update command) holds a Created line and a Last Updated line
\* that both carry the time of this run.
C16_UpdateOutcome ==
  fcd
  => \A k \in 1..Len(log) :
        (IsUpdateCall(k) /\ SentBody(k) # << >>)
        => HasUpdateLines(log[k].text, formatDate(clock))


\* C17: in the batch driver every create call follows an open-note on the
\* marker of the file that reported the note missing, and its text is the
\* stripped body of the file followed by the creation footer (no Last
\* Updated line) as the flags ask for it, whose marker carries the
\* identifier of the file's marker; every such open-note is followed by the
\* create call.
C17_BatchCreateWithId ==
  cmd = "batch"
  => \A k \in 1..Len(log) :
        /\ log[k].kind = "create"
           => LET working == detectNoteId(files0[log[k].file])
                  stripped == stripExistingFooter(files0[log[k].file])
                  text == log[k].text
              IN  /\ k > 1
                  /\ log[k - 1].kind = "open-note"
                  /\ log[k - 1].file = log[k].file
                  /\ log[k - 1].id = working
                  /\ log[k - 1].ok = "fail"
                  /\ Len(text) >= Len(stripped)
                  /\ SubSeq(text, 1, Len(stripped)) = stripped
                  /\ FooterBehind(stripped, text)
                       \in CreationFooters(working, fcd, fid)
                  /\ fid => /\ MarkerIsFinalLine(text)
                            /\ detectNoteId(text) = working
        /\ (log[k].kind = "open-note" /\ log[k].ok = "fail")
           => /\ k < Len(log)
              /\ log[k + 1].kind = "create"
              /\ log[k + 1].file = log[k].file

\* C17 witness: a file whose marker names a note the store does not hold was
\* created with its own identifier in the marker of a Created-only footer.
C17_Witness ==
  /\ cmd = "batch" /\ fcd /\ fid
  /\ \E k \in 1..Len(log) :
        /\ log[k].kind = "create" /\ log[k].ok = "ok"
        /\ files0[log[k].file] = MarkerBody
        /\ log[k].text = << X, NL, NL, D, NL, Cr, formatDate(clock), NL,
                            MO, I2, SP, E >>


\* entry k of the log is a file write that failed, or a call that failed
\* because the store does not hold the note it names
IoOrNotFound(k) ==
  /\ log[k].ok = "fail"
  /\ \/ log[k].kind = "write"
     \/ log[k].id # None /\ log[k].id \notin remote

\* C18: a create or update command in which a file write failed or a call
\* reported the note missing does not end with success: it ends with a
\* fatal error (a content file that cannot be read is fatal at once).
C18_SingleFileErrorsAreFatal ==
  (cmd \in {"create", "update"} /\ pc = "done")
  => \A k \in 1..Len(log) : ~IoOrNotFound(k)


\* C21: in the update command a supplied --id is the working identifier;
\* with no --id the identifier of the marker in the body is, and it is the
\* id of the add-text call; the search is made only when there is no --id,
\* no marker in the body and no --title.
C21_WorkingIdSelection ==
  (cmd = "update" /\ Len(log) > 0)
  => /\ flagId # None
        => /\ noteId = flagId
           /\ \A k \in 1..Len(log) :
                 log[k].kind = "add-text" => log[k].id = flagId
     /\ (flagId = None /\ detectNoteId(content) # None)
        => /\ noteId = detectNoteId(content)
           /\ \A k \in 1..Len(log) :
                 log[k].kind = "add-text" => log[k].id = detectNoteId(content)
     /\ \A k \in 1..Len(log) :
           log[k].kind = "search"
           => /\ flagId = None
              /\ detectNoteId(content) = None
              /\ ~hasTitle

\* C21 witness: with no --id and a search term at hand, the update command
\* took the identifier of the marker in the body and add-text was called
\* with it, without a search.
C21_Witness ==
  /\ cmd = "update" /\ pc = "done"
  /\ flagId = None /\ hasSearch /\ ~hasTitle
  /\ content = FooterBody
  /\ noteId = << I1 >>
  /\ \E k \in 1..Len(log) :
        log[k].kind = "add-text" /\ log[k].id = << I1 >> /\ log[k].ok = "ok"
  /\ \A k \in 1..Len(log) : log[k].kind # "search"


\* C22: the create command with an empty or absent body makes no create
\* call.
C22_EmptyBodyNotCreated ==
  (cmd = "create" /\ content = << >>)
  => \A k \in 1..Len(log) : log[k].kind # "create"


(***************************************************************************)
(* Properties of buildGMTOffset (checked under SpecOffset).                *)
(***************************************************************************)
\* the value of a decimal digit character
DigitValue(c) == (CHOOSE d \in 1..10 : DigitChars[d] = c) - 1

IsDigit(c) == \E d \in 1..10 : DigitChars[d] = c

RECURSIVE DecimalValue(_)
\* the number a sequence of digit characters writes
DecimalValue(ds) ==
  IF ds = << >>
  THEN 0
  ELSE 10 * DecimalValue(SubSeq(ds, 1, Len(ds) - 1)) + DigitValue(ds[Len(ds)])

\* the text is "GMT", a sign, and hours written in digits without a leading
\* zero, then either nothing (minutes 0) or ":" and the minutes in exactly
\* two digits; it reads back as offset m
RendersOffset(text, m) ==
  /\ Len(text) >= 5
  /\ SubSeq(text, 1, 3) = << "G", "M", "T" >>
  /\ text[4] = (IF m >= 0 THEN "+" ELSE "-")
  /\ LET rest == SubSeq(text, 5, Len(text))
         colons == {i \in 1..Len(rest) : rest[i] = ":"}
         hh == IF colons = {} THEN rest
               ELSE SubSeq(rest, 1, Min(colons) - 1)
         mm == IF colons = {} THEN << >>
               ELSE SubSeq(rest, Min(colons) + 1, Len(rest))
     IN  /\ hh # << >>
         /\ \A i \in 1..Len(hh) : IsDigit(hh[i])
         /\ (Len(hh) > 1 => hh[1] # "0")
         /\ \A i \in 1..Len(mm) : IsDigit(mm[i])
         /\ DecimalValue(hh) = abs(m) \div 60
         /\ IF abs(m) % 60 = 0
            THEN colons = {}
            ELSE /\ Len(mm) = 2
                 /\ DecimalValue(mm) = abs(m) % 60

\* C23: for every whole-minute offset m in -720..840 buildGMTOffset gives
\* "GMT", the sign ("+" for m >= 0, "-" for m < 0), the whole hours of |m|
\* and, only when the remaining minutes are not 0, ":" and those minutes in
\* two digits; no other offset of the range gives the same text.
C23_GMTOffsetRendering ==
  op = "offset"
  => /\ RendersOffset(res, tzOffset)
     /\ \A m \in (0 - MaxWest)..MaxEast :
           m # tzOffset => buildGMTOffset(m) # res

\* C23 witness: 5 hours 5 minutes west of UTC is written "GMT-5:05".
C23_Witness ==
  /\ op = "offset"
  /\ tzOffset = 0 - 305
  /\ res = << "G", "M", "T", "-", "5", ":", "0", "5" >>


(***************************************************************************)
(* Further properties of the workflows (checked under Spec).               *)
(***************************************************************************)
\* C24: a batch run with --dry-run makes no remote call (no open-note,
\* create or add-text) and writes no file: the log stays empty and every
\* file keeps its content.
C24_DryRunChangesNothing ==
  (cmd = "batch" /\ dry)
  => /\ log = << >>
     /\ files = files0
     /\ remote = Remote0

\* C24 witness: a dry run ended after a file with a marker was gone
\* through, with nothing called and nothing written.
C24_Witness ==
  /\ cmd = "batch" /\ dry /\ wb /\ fid /\ pc = "done"
  /\ ~NoMarker(files0[1])
  /\ processed >= 1
  /\ log = << >>
  /\ files = files0


\* entry k of the log is a create call of the batch that succeeded and
\* whose text was then written back to its file
CreatedAndWritten(k) ==
  /\ log[k].kind = "create" /\ log[k].ok = "ok"
  /\ \E j \in (k + 1)..Len(log) :
        /\ log[j].kind = "write" /\ log[j].ok = "ok"
        /\ log[j].file = log[k].file

\* C25: after the batch driver created a note for a file and wrote the body
\* back with its marker (--add-id), the marker of the file names the note
\* that was created, a note the store holds, so that the next run finds it
\* and updates.
C25_MarkerNamesCreatedNote ==
  (cmd = "batch" /\ fid)
  => \A k \in 1..Len(log) :
        CreatedAndWritten(k)
        => /\ detectNoteId(files[log[k].file]) = log[k].id
           /\ detectNoteId(files[log[k].file]) \in remote


\* the files of the batch whose call of the given kind succeeded and whose
\* write-back did not fail
FilesDoneBy(kind) ==
  {f \in DOMAIN files :
     /\ \E k \in 1..Len(log) :
           log[k].file = f /\ log[k].kind = kind /\ log[k].ok = "ok"
     /\ ~\E j \in 1..Len(log) :
           log[j].file = f /\ log[j].kind = "write" /\ log[j].ok = "fail"}

\* C26: when the batch loop has ended, processed + skipped + errors is the
\* number of files; with dry-run off processed is updated + created; and
\* updated and created count exactly the files whose add-text or create
\* call succeeded and whose write-back did not fail, so that a file whose
\* call or write-back failed is counted in errors only.
C26_BatchCounterInvariant ==
  (cmd = "batch" /\ pc = "done")
  => /\ processed + skipped + errors = Len(files)
     /\ ~dry => processed = updated + created
     /\ ~dry => /\ updated = Cardinality(FilesDoneBy("add-text"))
                /\ created = Cardinality(FilesDoneBy("create"))

\* C26 witness: a batch ended in which the write-back of one file failed
\* after its call had succeeded and another file was updated or created.
C26_Witness ==
  /\ cmd = "batch" /\ pc = "done" /\ ~dry
  /\ errors = 1
  /\ updated + created >= 1
  /\ \E j \in 1..Len(log) :
        /\ log[j].kind = "write" /\ log[j].ok = "fail"
        /\ log[j - 1].kind \in MutationKinds /\ log[j - 1].ok = "ok"


(***************************************************************************)
(* Properties of the path resolution (checked under SpecPath).             *)
(***************************************************************************)
\* two absolute paths name the same file: they differ at most in doubled
\* or trailing "/"
SameFile(p, q) ==
  withoutTrailingSlash(collapseSlashes(p))
    = withoutTrailingSlash(collapseSlashes(q))

\* C28: for every --content-file value and HOME set or not, the path that
\* write-back writes to names the file the body was read from.
C28_ReadAndWritePathsAgree ==
  (op = "writeBackPath" => SameFile(res, readPath(rawPath, home)))
  /\ (op = "readPath" => SameFile(res, writeBackPath(rawPath, home)))


(***************************************************************************)
(* Properties of readPipe (checked under SpecPipe).                        *)
(***************************************************************************)
\* C29: on every execution (stdin a terminal, a pipe with nothing in it, a
\* pipe that delivers data) the promise of readPipe is resolved in the end.
C29_ReadPipeResolves == <>(pipe.promise = "resolved")

=============================================================================
